---- MODULE Spec2Model ----
(***************************************************************************)
(* ProbabilitySimulator (simulation.py): a session object that owns a      *)
(* `results` dictionary, four simulate_* operations drawing from the two   *)
(* process-wide random generators (numpy's and the standard library's),    *)
(* four plot_* operations reading the dictionary, and run_all_simulations. *)
(*                                                                         *)
(* A random generator is modelled as a deterministic stream fixed by its   *)
(* seed: its state is a tape of raw words and a position; the stream is    *)
(* the tape repeated.  Seeding from system entropy picks any tape.         *)
(***************************************************************************)
EXTENDS Integers, Sequences, FiniteSets, TLC

VARIABLES results, np_rng, py_rng, call, pc, first

vars == <<results, np_rng, py_rng, call, pc, first>>

(***************************************************************************)
(* Bounds of the model.                                                    *)
(***************************************************************************)
MaxTrials == 2      \* largest valid trial count a caller passes
NpTapeLen == 3      \* period of the numpy generator's stream
PyTapeLen == 2      \* period of the stdlib generator's stream
NpWords == 6        \* raw words of the numpy generator are 0..NpWords-1
PyWords == 2        \* raw words of the stdlib generator are 0..PyWords-1

(***************************************************************************)
(* Constants of the program.                                               *)
(***************************************************************************)
DeckSize == 52
RedMax == 26
DieFaces == 6
DefaultTosses == 100
\* fault: the die default copied from the coin default
DefaultRollsAsTosses == DefaultTosses

DefaultRolls == 60
DefaultDraws == 20
DefaultTrials == 50
FixedSeed == 42

None == [none |-> TRUE]

(***************************************************************************)
(* Python helpers: dict, slice, sum.                                       *)
(***************************************************************************)
EmptyDict == [k \in {} |-> None]

\* fault: self.results = {k: v}, the other keys are lost
DictSetDropOthers(d, k, v) == [x \in {k} |-> v]

\* d[k] = v : insert or replace one key
DictSet(d, k, v) == [x \in (DOMAIN d) \cup {k} |-> IF x = k THEN v ELSE d[x]]

\* seq[:n]
SlicePrefix(seq, n) ==
    IF n >= 0
    THEN SubSeq(seq, 1, IF n < Len(seq) THEN n ELSE Len(seq))
    ELSE SubSeq(seq, 1, IF Len(seq) + n > 0 THEN Len(seq) + n ELSE 0)

\* sum(seq), np.sum(seq): added up by halves
RECURSIVE SumSeq(_)
SumSeq(seq) ==
    IF seq = <<>> THEN 0
    ELSE IF Len(seq) = 1 THEN seq[1]
    ELSE LET h == Len(seq) \div 2
         IN SumSeq(SubSeq(seq, 1, h)) + SumSeq(SubSeq(seq, h + 1, Len(seq)))

RECURSIVE Pow(_, _)
Pow(b, e) == IF e = 0 THEN 1 ELSE b * Pow(b, e - 1)

(***************************************************************************)
(* Random generators.                                                      *)
(***************************************************************************)
\* seed(s): the state a generator takes from seed s (digits of s, base w)
SeedState(s, w, len) ==
    [tape |-> [i \in 1..len |-> ((s % Pow(w, len)) \div Pow(w, i - 1)) % w],
     pos |-> 1]

\* seed() with no argument: any seed, from system entropy
EntropyStates(w, len) == {SeedState(s, w, len) : s \in 0..(Pow(w, len) - 1)}

\* the k-th next raw word of the stream, k >= 1
Word(rng, k) == rng.tape[((rng.pos - 1 + k - 1) % Len(rng.tape)) + 1]

\* the generator after n words were taken
Skip(rng, n) == [rng EXCEPT !.pos = ((rng.pos - 1 + n) % Len(rng.tape)) + 1]

\* np.random.randint(low, high): one sample from low..high-1, off the k-th next word
NpRandintScalar(rng, k, low, high) == low + (Word(rng, k) % (high - low))

\* np.random.randint(low, high, size): size samples from low..high-1
NpRandint(rng, low, high, size) ==
    [i \in 1..size |-> NpRandintScalar(rng, i, low, high)]

\* random._randbelow(n) on the k-th next word: the word scaled to 0..n-1
RandBelow(rng, k, n) == (Word(rng, k) * n) \div PyWords

\* fault: x[i] = x[j] without saving x[i]
SwapLost(x, i, j) == [x EXCEPT ![i] = x[j]]

\* x[i], x[j] = x[j], x[i]
Swap(x, i, j) == [x EXCEPT ![i] = x[j], ![j] = x[i]]

\* random.shuffle(x): for i in reversed(range(1, len(x))): j = randbelow(i+1); swap
\* (i is the 1-based index of the element being placed, k counts the words used)
RECURSIVE ShuffleFrom(_, _, _, _)
ShuffleFrom(x, rng, i, k) ==
    IF i < 2 THEN x
    ELSE ShuffleFrom(Swap(x, i, RandBelow(rng, k, i) + 1), rng, i - 1, k + 1)

Shuffle(x, rng) == ShuffleFrom(x, rng, Len(x), 1)

\* number of words random.shuffle takes for a list of length n
ShuffleWords(n) == IF n > 1 THEN n - 1 ELSE 0

(***************************************************************************)
(* The Result records.                                                     *)
(***************************************************************************)
\* fault: heads and tails exchanged (0 taken for heads)
CoinTossResultSwapped(tosses, num_tosses) ==
    [heads |-> num_tosses - SumSeq(tosses),
     tails |-> SumSeq(tosses),
     raw_data |-> tosses]

\* heads_count = np.sum(tosses); tails_count = num_tosses - heads_count
CoinTossResult(tosses, num_tosses) ==
    [heads |-> SumSeq(tosses),
     tails |-> num_tosses - SumSeq(tosses),
     raw_data |-> tosses]

\* collections.Counter(seq): a dict from each value seen to its tally
Counter(seq) ==
    [v \in {seq[i] : i \in DOMAIN seq} |-> Cardinality({i \in DOMAIN seq : seq[i] = v})]

\* dict.get(k, default)
DictGet(d, k, default) == IF k \in DOMAIN d THEN d[k] ELSE default

\* fault: the naive tally, only the faces that were rolled
DieCountsObservedOnly(rolls) == Counter(rolls)

\* {face: face_counts.get(face, 0) for face in range(1, 7)}
DieCounts(rolls) == [face \in 1..DieFaces |-> DictGet(Counter(rolls), face, 0)]

DieRollResult(rolls) == [counts |-> DieCounts(rolls), raw_data |-> rolls]

\* card <= 26
IsRed(card) == card <= RedMax

\* red_count = sum(1 for card in draws if card <= 26); black_count = num_draws - red_count
CardDrawResult(draws, num_draws) ==
    [red |-> Len(SelectSeq(draws, IsRed)),
     black |-> num_draws - Len(SelectSeq(draws, IsRed)),
     raw_data |-> draws]

\* deck = list(range(1, 53))
Deck == [i \in 1..DeckSize |-> i]

\* fault: at_least_one_head counted only when exactly one coin is heads
CompoundTrialExclusive(s, flip1, flip2) ==
    [both_heads |-> s.both_heads + (IF flip1 = 1 /\ flip2 = 1 THEN 1 ELSE 0),
     at_least_one_head |-> s.at_least_one_head + (IF flip1 # flip2 THEN 1 ELSE 0),
     raw_data |-> Append(s.raw_data, <<flip1, flip2>>)]

\* one iteration of the loop body on the locals both_heads, at_least_one_head, raw_data
CompoundTrial(s, flip1, flip2) ==
    [both_heads |-> s.both_heads + (IF flip1 = 1 /\ flip2 = 1 THEN 1 ELSE 0),
     at_least_one_head |-> s.at_least_one_head + (IF flip1 = 1 \/ flip2 = 1 THEN 1 ELSE 0),
     raw_data |-> Append(s.raw_data, <<flip1, flip2>>)]

\* the locals after the loop `for _ in range(num_trials)` ran t iterations
RECURSIVE CompoundLoop(_, _)
CompoundLoop(rng, t) ==
    IF t <= 0
    THEN [both_heads |-> 0, at_least_one_head |-> 0, raw_data |-> <<>>]
    ELSE CompoundTrial(CompoundLoop(rng, t - 1),
                       NpRandintScalar(rng, 2 * t - 1, 0, 2),
                       NpRandintScalar(rng, 2 * t, 0, 2))

\* the dictionary stored once the loop is over
CompoundEventResult(s, num_trials) ==
    [both_heads |-> s.both_heads,
     at_least_one_head |-> s.at_least_one_head,
     neither_head |-> num_trials - s.at_least_one_head,
     raw_data |-> s.raw_data]

(***************************************************************************)
(* What a call did: the operation, its argument, how it ended, the value   *)
(* it returned, the line it printed, the figure it handed to matplotlib,   *)
(* and (simulate_compound_events) its locals after each loop iteration.    *)
(***************************************************************************)
Outcome(op, arg, status, ret, printed, figure, steps) ==
    [op |-> op, arg |-> arg, status |-> status, ret |-> ret,
     printed |-> printed, figure |-> figure, steps |-> steps]

Returned(op, arg, ret) == Outcome(op, arg, "returned", ret, "", None, <<>>)

Raised(op, arg, exc) == Outcome(op, arg, exc, None, "", None, <<>>)

\* fault: no membership test, self.results[key] raises KeyError
NoResultKeyError(op, msg) == Outcome(op, None, "KeyError", None, "", None, <<>>)

\* if key not in self.results: print(msg); return
NoResult(op, msg) == Outcome(op, None, "returned", None, msg, None, <<>>)

\* the plot ran to plt.show()
Shown(op, bars, text) ==
    Outcome(op, None, "returned", None, "",
            [bars |-> bars, text |-> text, shown |-> TRUE], <<>>)

\* the plot raised after the bars were drawn, before plt.show()
PlotRaised(op, bars, exc) ==
    Outcome(op, None, exc, None, "",
            [bars |-> bars, text |-> None, shown |-> FALSE], <<>>)

\* a / b on numpy integers: 0/0 is nan, x/0 is inf, with a warning and no exception
NpTrueDivide(a, b) ==
    IF b # 0 THEN [num |-> a, den |-> b]
    ELSE IF a = 0 THEN [nan |-> TRUE] ELSE [inf |-> TRUE]

\* a / b on Python ints, b # 0 (b = 0 raises ZeroDivisionError)
PyTrueDivide(a, b) == [num |-> a, den |-> b]

(***************************************************************************)
(* __init__                                                                *)
(***************************************************************************)
Init ==
    /\ results = EmptyDict
    /\ py_rng \in EntropyStates(PyWords, PyTapeLen)
    /\ np_rng \in EntropyStates(NpWords, NpTapeLen)
    /\ call = Returned("__init__", None, None)
    /\ pc = 0
    /\ first = None

(***************************************************************************)
(* The simulate_* operations.                                              *)
(***************************************************************************)
simulate_coin_tosses(num_tosses) ==
    IF num_tosses < 0
    THEN \* np.random.randint: ValueError, negative dimensions are not allowed
         /\ call' = Raised("simulate_coin_tosses", num_tosses, "ValueError")
         /\ UNCHANGED <<results, np_rng, py_rng>>
    ELSE LET tosses == NpRandint(np_rng, 0, 2, num_tosses) IN
         /\ results' = DictSet(results, "coin_tosses", CoinTossResult(tosses, num_tosses))
         /\ np_rng' = Skip(np_rng, num_tosses)
         /\ call' = Returned("simulate_coin_tosses", num_tosses, results'["coin_tosses"])
         /\ UNCHANGED py_rng

simulate_die_rolls(num_rolls) ==
    IF num_rolls < 0
    THEN /\ call' = Raised("simulate_die_rolls", num_rolls, "ValueError")
         /\ UNCHANGED <<results, np_rng, py_rng>>
    ELSE LET rolls == NpRandint(np_rng, 1, DieFaces + 1, num_rolls) IN
         /\ results' = DictSet(results, "die_rolls", DieRollResult(rolls))
         /\ np_rng' = Skip(np_rng, num_rolls)
         /\ call' = Returned("simulate_die_rolls", num_rolls, results'["die_rolls"])
         /\ UNCHANGED py_rng

simulate_card_draws(num_draws) ==
    LET draws == SlicePrefix(Shuffle(Deck, py_rng), num_draws) IN
    /\ results' = DictSet(results, "card_draws", CardDrawResult(draws, num_draws))
    /\ py_rng' = Skip(py_rng, ShuffleWords(DeckSize))
    /\ call' = Returned("simulate_card_draws", num_draws, results'["card_draws"])
    /\ UNCHANGED np_rng

simulate_compound_events(num_trials) ==
    LET n == IF num_trials > 0 THEN num_trials ELSE 0     \* len(range(num_trials))
        s == CompoundLoop(np_rng, n)
    IN
    /\ results' = DictSet(results, "compound_events", CompoundEventResult(s, num_trials))
    /\ np_rng' = Skip(np_rng, 2 * n)
    /\ call' = Outcome("simulate_compound_events", num_trials, "returned",
                       results'["compound_events"], "", None,
                       [t \in 1..n |-> LET l == CompoundLoop(np_rng, t) IN
                            [both_heads |-> l.both_heads,
                             at_least_one_head |-> l.at_least_one_head]])
    /\ UNCHANGED py_rng

(***************************************************************************)
(* The plot_* operations.                                                  *)
(***************************************************************************)
plot_coin_tosses ==
    /\ call' =
         IF "coin_tosses" \notin DOMAIN results
         THEN NoResult("plot_coin_tosses", "No coin toss simulation has been run yet.")
         ELSE LET r == results["coin_tosses"]
                  counts == <<r.heads, r.tails>>
                  total == SumSeq(counts)
              IN Shown("plot_coin_tosses", counts, <<NpTrueDivide(r.heads, total)>>)
    /\ UNCHANGED <<results, np_rng, py_rng>>

plot_die_rolls ==
    /\ call' =
         IF "die_rolls" \notin DOMAIN results
         THEN NoResult("plot_die_rolls", "No die roll simulation has been run yet.")
         ELSE LET r == results["die_rolls"].counts
                  counts == [i \in 1..DieFaces |-> r[i]]
                  total == SumSeq(counts)
              IN Shown("plot_die_rolls", counts, <<PyTrueDivide(total, 6)>>)
    /\ UNCHANGED <<results, np_rng, py_rng>>

plot_card_draws ==
    /\ call' =
         IF "card_draws" \notin DOMAIN results
         THEN NoResult("plot_card_draws", "No card draw simulation has been run yet.")
         ELSE LET r == results["card_draws"]
                  counts == <<r.red, r.black>>
                  total == SumSeq(counts)
              IN IF total = 0
                 THEN PlotRaised("plot_card_draws", counts, "ZeroDivisionError")
                 ELSE Shown("plot_card_draws", counts, <<PyTrueDivide(r.red, total)>>)
    /\ UNCHANGED <<results, np_rng, py_rng>>

plot_compound_events ==
    /\ call' =
         IF "compound_events" \notin DOMAIN results
         THEN NoResult("plot_compound_events",
                       "No compound event simulation has been run yet.")
         ELSE LET r == results["compound_events"]
                  counts1 == <<r.both_heads,
                               r.at_least_one_head - r.both_heads + r.neither_head>>
                  counts2 == <<r.at_least_one_head, r.neither_head>>
                  total == SumSeq(counts1)
              IN IF total = 0
                 THEN PlotRaised("plot_compound_events", counts1 \o counts2,
                                 "ZeroDivisionError")
                 ELSE Shown("plot_compound_events", counts1 \o counts2,
                            <<PyTrueDivide(r.both_heads, total),
                              PyTrueDivide(r.at_least_one_head, total)>>)
    /\ UNCHANGED <<results, np_rng, py_rng>>

(***************************************************************************)
(* tests.py setUp: a new session, then np.random.seed(42).  The stdlib     *)
(* generator keeps the entropy seed __init__ gave it.                      *)
(***************************************************************************)
setUp ==
    /\ results' = EmptyDict
    /\ py_rng' \in EntropyStates(PyWords, PyTapeLen)
    /\ np_rng' = SeedState(FixedSeed, NpWords, NpTapeLen)
    /\ call' = Returned("setUp", None, None)

\* the session as setUp leaves it
InitSetUp ==
    /\ results = EmptyDict
    /\ py_rng \in EntropyStates(PyWords, PyTapeLen)
    /\ np_rng = SeedState(FixedSeed, NpWords, NpTapeLen)
    /\ call = Returned("setUp", None, None)
    /\ pc = 0
    /\ first = None

(***************************************************************************)
(* Callers.  A caller passes any trial count of the set it is given: one   *)
(* experiment is tried on valid and invalid counts (negative, or past the  *)
(* deck), a whole session on the valid counts zero and MaxTrials.          *)
(***************************************************************************)
TrialCounts == (-1)..MaxTrials

DrawCounts == (-1)..(DeckSize + 1)

SessionCounts == {0, MaxTrials}

ValidCounts == 0..MaxTrials

SimulateCoinTosses(counts) ==
    \E n \in counts : simulate_coin_tosses(n) /\ UNCHANGED <<pc, first>>

SimulateDieRolls(counts) ==
    \E n \in counts : simulate_die_rolls(n) /\ UNCHANGED <<pc, first>>

SimulateCardDraws(counts) ==
    \E n \in counts : simulate_card_draws(n) /\ UNCHANGED <<pc, first>>

SimulateCompoundEvents(counts) ==
    \E n \in counts : simulate_compound_events(n) /\ UNCHANGED <<pc, first>>

PlotCoinTosses == plot_coin_tosses /\ UNCHANGED <<pc, first>>

PlotDieRolls == plot_die_rolls /\ UNCHANGED <<pc, first>>

PlotCardDraws == plot_card_draws /\ UNCHANGED <<pc, first>>

PlotCompoundEvents == plot_compound_events /\ UNCHANGED <<pc, first>>

(***************************************************************************)
(* The session: every operation, in any order, on one session.             *)
(***************************************************************************)
Next ==
    \/ SimulateCoinTosses(SessionCounts)
    \/ SimulateDieRolls(SessionCounts)
    \/ SimulateCardDraws(SessionCounts)
    \/ SimulateCompoundEvents(SessionCounts)
    \/ PlotCoinTosses
    \/ PlotDieRolls
    \/ PlotCardDraws
    \/ PlotCompoundEvents

Spec == InitSetUp /\ [][Next]_vars

(***************************************************************************)
(* One experiment at a time, every seed of the generator it reads (the     *)
(* other generator is held at one seed), every trial count.                *)
(***************************************************************************)
InitNp == Init /\ py_rng = SeedState(FixedSeed, PyWords, PyTapeLen)

InitPy == Init /\ np_rng = SeedState(FixedSeed, NpWords, NpTapeLen)

NextCoin == SimulateCoinTosses(TrialCounts) \/ PlotCoinTosses

SpecCoin == InitNp /\ [][NextCoin]_vars

NextDie == SimulateDieRolls(TrialCounts) \/ PlotDieRolls

SpecDie == InitNp /\ [][NextDie]_vars

NextCard == SimulateCardDraws(DrawCounts) \/ PlotCardDraws

SpecCard == InitPy /\ [][NextCard]_vars

NextCompound == SimulateCompoundEvents(TrialCounts) \/ PlotCompoundEvents

SpecCompound == InitNp /\ [][NextCompound]_vars

(***************************************************************************)
(* run_all_simulations: eight calls in program order; pc counts the calls  *)
(* it has completed.                                                       *)
(***************************************************************************)
run_all_simulations ==
    /\ \/ pc = 0 /\ simulate_coin_tosses(DefaultTosses)
       \/ pc = 1 /\ plot_coin_tosses
       \/ pc = 2 /\ simulate_die_rolls(DefaultRolls)
       \/ pc = 3 /\ plot_die_rolls
       \/ pc = 4 /\ simulate_card_draws(DefaultDraws)
       \/ pc = 5 /\ plot_card_draws
       \/ pc = 6 /\ simulate_compound_events(DefaultTrials)
       \/ pc = 7 /\ plot_compound_events
    /\ pc' = pc + 1
    /\ UNCHANGED first

SpecRunAll == Init /\ [][run_all_simulations]_vars

(***************************************************************************)
(* The test fixture, run over and over: setUp, then one simulate_* call on  *)
(* a valid count.  `first` keeps the outcome of the first test that ran.   *)
(***************************************************************************)
SetUp == setUp /\ UNCHANGED <<pc, first>>

Test(simulate) ==
    /\ call.op = "setUp"
    /\ simulate
    /\ first' = IF first = None THEN call' ELSE first
    /\ UNCHANGED pc

TestCoinTosses == \E n \in ValidCounts : Test(simulate_coin_tosses(n))

TestDieRolls == \E n \in ValidCounts : Test(simulate_die_rolls(n))

TestCardDraws == \E n \in ValidCounts : Test(simulate_card_draws(n))

TestCompoundEvents == \E n \in ValidCounts : Test(simulate_compound_events(n))

NextTests ==
    \/ SetUp
    \/ TestCoinTosses
    \/ TestDieRolls
    \/ TestCardDraws
    \/ TestCompoundEvents

SpecTests == Init /\ [][NextTests]_vars

(***************************************************************************)
(* Properties.                                                             *)
(***************************************************************************)
SimulateOps == {"simulate_coin_tosses", "simulate_die_rolls",
                "simulate_card_draws", "simulate_compound_events"}

PlotOps == {"plot_coin_tosses", "plot_die_rolls",
            "plot_card_draws", "plot_compound_events"}

Keys == {"coin_tosses", "die_rolls", "card_draws", "compound_events"}

KeyOf(op) ==
    CASE op \in {"simulate_coin_tosses", "plot_coin_tosses"} -> "coin_tosses"
      [] op \in {"simulate_die_rolls", "plot_die_rolls"} -> "die_rolls"
      [] op \in {"simulate_card_draws", "plot_card_draws"} -> "card_draws"
      [] op \in {"simulate_compound_events", "plot_compound_events"} -> "compound_events"

NoResultMessage(op) ==
    CASE op = "plot_coin_tosses" -> "No coin toss simulation has been run yet."
      [] op = "plot_die_rolls" -> "No die roll simulation has been run yet."
      [] op = "plot_card_draws" -> "No card draw simulation has been run yet."
      [] op = "plot_compound_events" -> "No compound event simulation has been run yet."

Occurrences(seq, v) == Cardinality({i \in DOMAIN seq : seq[i] = v})

\* C1: simulate_coin_tosses(n), n >= 0, returns and stores a result with n
\* entries of raw_data, each 0 or 1, heads the number of 1s, heads + tails = n,
\* 0 <= heads <= n; n = 0 gives heads = tails = 0 and no raw_data.
C1_CoinTossResult ==
    (call.op = "simulate_coin_tosses" /\ call.arg >= 0) =>
        /\ call.status = "returned"
        /\ call.ret = results["coin_tosses"]
        /\ Len(call.ret.raw_data) = call.arg
        /\ \A i \in DOMAIN call.ret.raw_data : call.ret.raw_data[i] \in {0, 1}
        /\ call.ret.heads = Occurrences(call.ret.raw_data, 1)
        /\ call.ret.heads + call.ret.tails = call.arg
        /\ 0 <= call.ret.heads /\ call.ret.heads <= call.arg
        /\ call.arg = 0 =>
              call.ret.heads = 0 /\ call.ret.tails = 0 /\ call.ret.raw_data = <<>>

C1_Witness ==
    /\ call.op = "simulate_coin_tosses"
    /\ call.arg = MaxTrials
    /\ call.ret.heads = 1
    /\ call.ret.tails = MaxTrials - 1

\* C2: simulate_die_rolls(n), n >= 0, returns counts with exactly the keys
\* 1..6, counts[f] the number of f in raw_data, and the counts adding up to
\* n = len(raw_data).
C2_DieRollResult ==
    (call.op = "simulate_die_rolls" /\ call.arg >= 0) =>
        /\ call.status = "returned"
        /\ call.ret = results["die_rolls"]
        /\ DOMAIN call.ret.counts = 1..6
        /\ \A f \in 1..6 : call.ret.counts[f] = Occurrences(call.ret.raw_data, f)
        /\ Len(call.ret.raw_data) = call.arg
        /\ \A i \in DOMAIN call.ret.raw_data : call.ret.raw_data[i] \in 1..6
        /\ call.ret.counts[1] + call.ret.counts[2] + call.ret.counts[3]
             + call.ret.counts[4] + call.ret.counts[5] + call.ret.counts[6] = call.arg

C2_Witness ==
    /\ call.op = "simulate_die_rolls"
    /\ call.arg = MaxTrials
    /\ call.ret.counts[6] = 1
    /\ call.ret.counts[1] = 0

\* C3: simulate_card_draws(n), 0 <= n <= 52, returns n pairwise distinct cards
\* of 1..52, red the number of cards <= 26, black the number >= 27, and
\* red + black = n = len(raw_data).
C3_CardDrawResult ==
    (call.op = "simulate_card_draws" /\ call.arg >= 0 /\ call.arg <= 52) =>
        /\ call.status = "returned"
        /\ call.ret = results["card_draws"]
        /\ Len(call.ret.raw_data) = call.arg
        /\ \A i \in DOMAIN call.ret.raw_data : call.ret.raw_data[i] \in 1..52
        /\ \A i, j \in DOMAIN call.ret.raw_data :
              i # j => call.ret.raw_data[i] # call.ret.raw_data[j]
        /\ call.ret.red = Cardinality({i \in DOMAIN call.ret.raw_data :
                                          call.ret.raw_data[i] <= 26})
        /\ call.ret.black = Cardinality({i \in DOMAIN call.ret.raw_data :
                                            call.ret.raw_data[i] >= 27})
        /\ call.ret.red + call.ret.black = call.arg

C3_Witness ==
    /\ call.op = "simulate_card_draws"
    /\ call.arg = 3
    /\ call.ret.red = 1
    /\ call.ret.black = 2

\* C4: simulate_compound_events(n), n >= 0, returns n pairs, both_heads the
\* number of (1,1), at_least_one_head the number of pairs with a 1,
\* both_heads <= at_least_one_head, at_least_one_head + neither_head = n,
\* neither_head >= 0; and both_heads <= at_least_one_head after every
\* iteration of the loop.
C4_CompoundEventResult ==
    (call.op = "simulate_compound_events" /\ call.arg >= 0) =>
        /\ call.status = "returned"
        /\ call.ret = results["compound_events"]
        /\ Len(call.ret.raw_data) = call.arg
        /\ call.ret.both_heads = Occurrences(call.ret.raw_data, <<1, 1>>)
        /\ call.ret.at_least_one_head =
              Cardinality({i \in DOMAIN call.ret.raw_data :
                              call.ret.raw_data[i][1] = 1 \/ call.ret.raw_data[i][2] = 1})
        /\ call.ret.both_heads <= call.ret.at_least_one_head
        /\ call.ret.at_least_one_head + call.ret.neither_head = call.arg
        /\ call.ret.neither_head >= 0
        /\ Len(call.steps) = call.arg
        /\ \A t \in DOMAIN call.steps :
              call.steps[t].both_heads <= call.steps[t].at_least_one_head

C4_Witness ==
    /\ call.op = "simulate_compound_events"
    /\ call.arg = MaxTrials
    /\ call.ret.both_heads = 1
    /\ call.ret.at_least_one_head = 2
    /\ call.steps[1].both_heads = 1

\* C5: the store is last-write-wins per experiment: it starts empty; a
\* simulate_* call sets its own key to the Result it returns, whose raw_data
\* has the length of that call's trial count and nothing more, and leaves
\* every other key as it was; no other call adds, changes or removes a key.
C5_LastWriteWins ==
    /\ results = EmptyDict
    /\ [][IF call'.op \in SimulateOps /\ call'.status = "returned"
          THEN /\ DOMAIN results' = DOMAIN results \cup {KeyOf(call'.op)}
               /\ results'[KeyOf(call'.op)] = call'.ret
               /\ Len(results'[KeyOf(call'.op)].raw_data) = call'.arg
               /\ \A k \in DOMAIN results :
                     k # KeyOf(call'.op) => results'[k] = results[k]
          ELSE results' = results]_vars

C5_Witness ==
    /\ DOMAIN results = Keys
    /\ call.op = "simulate_coin_tosses"
    /\ call.arg = 0
    /\ results["coin_tosses"].raw_data = <<>>
    /\ Len(results["die_rolls"].raw_data) = MaxTrials
    /\ Len(results["card_draws"].raw_data) = MaxTrials
    /\ Len(results["compound_events"].raw_data) = MaxTrials

\* C6: a simulate_* call with an invalid trial count (negative, or more than
\* 52 draws) raises and returns no Result, and no stored Result has a negative
\* counter.
C6_InvalidCountRejected ==
    /\ (call.op \in SimulateOps
          /\ (call.arg < 0 \/ (call.op = "simulate_card_draws" /\ call.arg > 52))) =>
             call.status # "returned" /\ call.ret = None
    /\ "compound_events" \in DOMAIN results =>
          results["compound_events"].neither_head >= 0
    /\ "card_draws" \in DOMAIN results => results["card_draws"].black >= 0

\* C7: a plot_* call on a stored result of zero trials returns without a
\* division error, shows its figure, and shows no quotient by zero.
C7_ZeroTotalGuarded ==
    (/\ call.op \in PlotOps
     /\ KeyOf(call.op) \in DOMAIN results
     /\ results[KeyOf(call.op)].raw_data = <<>>) =>
        /\ call.status = "returned"
        /\ call.figure # None
        /\ call.figure.shown
        /\ \A i \in DOMAIN call.figure.text :
              "den" \in DOMAIN call.figure.text[i] => call.figure.text[i].den # 0

\* C8: a plot_* call leaves results unchanged; when its key is absent it
\* returns normally, prints that no simulation has been run yet, and hands no
\* figure to matplotlib.
C8_PlotWithoutResult ==
    [][call'.op \in PlotOps =>
          /\ results' = results
          /\ KeyOf(call'.op) \notin DOMAIN results =>
                /\ call'.status = "returned"
                /\ call'.printed = NoResultMessage(call'.op)
                /\ call'.figure = None]_vars

C8_Witness ==
    /\ call.op = "plot_die_rolls"
    /\ call.printed = "No die roll simulation has been run yet."
    /\ DOMAIN results = Keys \ {"die_rolls"}

\* C9 as claimed: run_all_simulations runs all four experiments before it
\* requests the first presentation.
C9_SimulateAllThenPlot ==
    (pc > 0 /\ call.op \in PlotOps) => DOMAIN results = Keys

\* C9 amended: run_all_simulations calls, in this order, simulate and then plot
\* of coin, die, card, compound, with the default counts; every plot finds its
\* result stored and shows its figure; at the end results has the four keys
\* with 100, 60, 20 and 50 entries of raw_data.
RunAllOrder ==
    <<"simulate_coin_tosses", "plot_coin_tosses",
      "simulate_die_rolls", "plot_die_rolls",
      "simulate_card_draws", "plot_card_draws",
      "simulate_compound_events", "plot_compound_events">>

C9_RunAllInterleaved ==
    /\ pc \in 0..8
    /\ pc > 0 =>
          /\ call.op = RunAllOrder[pc]
          /\ call.status = "returned"
          /\ call.op \in PlotOps =>
                call.printed = "" /\ call.figure # None /\ call.figure.shown
          /\ DOMAIN results = {KeyOf(RunAllOrder[i]) : i \in 1..pc}
    /\ pc = 8 =>
          /\ DOMAIN results = Keys
          /\ Len(results["coin_tosses"].raw_data) = 100
          /\ Len(results["die_rolls"].raw_data) = 60
          /\ Len(results["card_draws"].raw_data) = 20
          /\ Len(results["compound_events"].raw_data) = 50

C9_Witness ==
    /\ pc = 8
    /\ call.op = "plot_compound_events"
    /\ call.figure.shown

\* C10: two tests that call the same simulate_* operation with the same trial
\* count, each right after setUp, get the same outcome.
C10_SameSeedSameResult ==
    (/\ first # None
     /\ call.op = first.op
     /\ call.arg = first.arg) => call = first

====
